---- MODULE Spec2Model ----
(***************************************************************************)
(* InstalledApplicationsManager (xwalk/application/browser/linux/          *)
(* installed_applications_root.cc): the D-Bus object manager that mirrors  *)
(* the application store as one exported object per installed application. *)
(*                                                                         *)
(* Everything runs on one thread.  A handler is cut into steps at the      *)
(* points where it calls into the store and where the store calls the      *)
(* observer back, so that the order of effects inside one command is       *)
(* visible; pc names the step that runs next and is "idle" when no         *)
(* operation is in flight.                                                  *)
(***************************************************************************)
EXTENDS Integers, Sequences, FiniteSets, TLC

\* Bounds of the model.
NumIds == 2        \* application identities the store may hold
MaxCalls == 3      \* commands and store events started from idle

Ids == 1..NumIds

VARIABLES
  store,                  \* identities the application store reports installed
  objects,                \* heap: pointer -> InstalledApplicationObject (live ones)
  next_obj,               \* next pointer handed out by new
  installed_apps_,        \* ScopedVector<InstalledApplicationObject>: pointers
  exported,               \* bus: object path -> pointer bound to its Uninstall
  log,                    \* what went over the bus and into the store, in order
  pc,                     \* the step that runs next
  ret,                    \* where the observer callback returns to
  file_path_str,          \* OnInstall: the popped argument
  app_id,                 \* OnInstall: out-parameter of Install; observers: argument
  installed_app_object,   \* OnUninstall: the raw pointer bound to the handler
  it,                     \* OnApplicationUninstalled: position found (0 = end())
  ncalls                  \* operations started so far

vars == <<store, objects, next_obj, installed_apps_, exported, log, pc, ret,
          file_path_str, app_id, installed_app_object, it, ncalls>>

-----------------------------------------------------------------------------
\* Constants of the source.

kInstalledManagerDBusInterface == "org.crosswalkproject.Installed.Manager"
kInstalledManagerDBusError == "org.crosswalkproject.Installed.Manager.Error"
kDBusObjectManagerInterface == "org.freedesktop.DBus.ObjectManager"
kInstalledManagerDBusPath == <<"/installed">>

\* Declared in installed_application_object.h.
kInstalledApplicationDBusInterface == "org.crosswalkproject.Installed.Application1"
kInstalledApplicationDBusError == "org.crosswalkproject.Installed.Application.Error"

-----------------------------------------------------------------------------
\* Values that travel.

\* A file path is a sequence of components; a leading "/" makes it absolute.
AbsolutePackage(id) == <<"/", "pkg", id>>
RelativePackage(id) == <<"pkg", id>>
NoString == <<"not-a-string">>     \* a method call whose argument is no string

InstallArguments ==
  {NoString} \cup {AbsolutePackage(i) : i \in Ids} \cup {RelativePackage(1)}

\* base::FilePath::IsAbsolute() on POSIX.
IsAbsolute(file_path) == Len(file_path) > 0 /\ file_path[1] = "/"

\* The identity the store gives the package at file_path.
PackageId(file_path) == file_path[Len(file_path)]

\* InstalledApplicationObject::path(): the manager's path plus the app id.
PathOf(id) == kInstalledManagerDBusPath \o <<id>>

\* InstalledApplicationObject::interfaces().
Interfaces == <<kInstalledApplicationDBusInterface>>

\* InstalledApplicationObject::AppendAllPropertiesToWriter().
Properties(object) == <<kInstalledApplicationDBusInterface, <<"AppID", object.app_id>>>>

\* new InstalledApplicationObject(bus_, kInstalledManagerDBusPath, app).
NewObject(id) == [app_id |-> id, path |-> PathOf(id)]

\* Entries of the log.
MethodCall(interface, member, path, arg) ==
  [type |-> "call", name |-> member, path |-> path, data |-> <<interface, arg>>]
Signal(member, path, body) ==
  [type |-> "signal", name |-> member, path |-> path, data |-> body]
Response(member, body) ==
  [type |-> "response", name |-> member, path |-> <<>>, data |-> body]
ErrorResponse(member, error_name, message) ==
  [type |-> "error", name |-> member, path |-> <<>>, data |-> <<error_name, message>>]
StoreCall(op, arg, ok) ==
  [type |-> "store", name |-> op, path |-> <<>>, data |-> <<arg, ok>>]
ObjectRead(ptr, phase) ==
  [type |-> "read", name |-> phase, path |-> <<>>, data |-> <<ptr>>]
Exported(path) ==
  [type |-> "export", name |-> "Uninstall", path |-> path, data |-> <<>>]
Unregistered(path) ==
  [type |-> "unregister", name |-> "", path |-> path, data |-> <<>>]

\* Mutant: the error is built with the application objects' error name.
CreateError_ApplicationError(member, message) ==
  ErrorResponse(member, kInstalledApplicationDBusError, message)

\* CreateError(): every manager error carries the one manager error name.
CreateError(member, message) ==
  ErrorResponse(member, kInstalledManagerDBusError, message)

-----------------------------------------------------------------------------
\* Helpers on the collection.

Remove(seq, i) == [j \in 1..(Len(seq) - 1) |-> IF j < i THEN seq[j] ELSE seq[j + 1]]

Without(f, k) == [x \in DOMAIN f \ {k} |-> f[x]]

\* std::find_if(installed_apps_.begin(), installed_apps_.end(), MatchAppID(id)):
\* the first position whose object has that app id, 0 for end().
MatchAppID(id, ptr) == objects[ptr].app_id = id

find_if(apps, id) ==
  IF \E i \in 1..Len(apps) : MatchAppID(id, apps[i])
  THEN CHOOSE i \in 1..Len(apps) :
         /\ MatchAppID(id, apps[i])
         /\ \A j \in 1..(i - 1) : ~MatchAppID(id, apps[j])
  ELSE 0

\* The identities and paths the collection holds.
TrackedIds == {objects[installed_apps_[i]].app_id : i \in 1..Len(installed_apps_)}
TrackedPaths == {objects[installed_apps_[i]].path : i \in 1..Len(installed_apps_)}

\* The body of a GetManagedObjects response: one entry per element, in order.
ManagedObjects(apps) ==
  [i \in 1..Len(apps) |-> <<objects[apps[i]].path, Properties(objects[apps[i]])>>]

\* What reading app_id() through a raw pointer can give: the object's id while
\* it lives, anything once it was destroyed.
ReadAppId(ptr) == IF ptr \in DOMAIN objects THEN {objects[ptr].app_id} ELSE Ids

-----------------------------------------------------------------------------
\* Construction.

\* The store's map iterates in key order.
RECURSIVE InKeyOrder(_)
InKeyOrder(S) ==
  IF S = {} THEN <<>>
  ELSE LET m == CHOOSE x \in S : \A y \in S : x <= y
       IN <<m>> \o InKeyOrder(S \ {m})

\* CreateInitialObjects(): one object per installed application, no signal.
CreateInitialObjects(apps) == [p \in 1..Len(apps) |-> NewObject(apps[p])]

\* Mutant: the initial objects are announced like newly installed ones.
Init_Announcing ==
  /\ store \in SUBSET Ids
  /\ LET apps == InKeyOrder(store) IN
       /\ objects = CreateInitialObjects(apps)
       /\ installed_apps_ = [p \in 1..Len(apps) |-> p]
       /\ exported = [path \in {PathOf(i) : i \in store} |->
                        CHOOSE p \in 1..Len(apps) : PathOf(apps[p]) = path]
       /\ log = [p \in 1..(2 * Len(apps)) |->
                   IF p % 2 = 1
                   THEN Exported(PathOf(apps[(p + 1) \div 2]))
                   ELSE Signal("InterfacesAdded", PathOf(apps[p \div 2]),
                               Properties(NewObject(apps[p \div 2])))]
       /\ next_obj = Len(apps) + 1
  /\ pc = "idle"
  /\ ret = "idle"
  /\ file_path_str = <<>>
  /\ app_id = 0
  /\ installed_app_object = 0
  /\ it = 0
  /\ ncalls = 0

Init ==
  /\ store \in SUBSET Ids
  /\ LET apps == InKeyOrder(store) IN
       /\ objects = CreateInitialObjects(apps)
       /\ installed_apps_ = [p \in 1..Len(apps) |-> p]
       /\ exported = [path \in {PathOf(i) : i \in store} |->
                        CHOOSE p \in 1..Len(apps) : PathOf(apps[p]) = path]
       /\ log = [p \in 1..Len(apps) |-> Exported(PathOf(apps[p]))]
       /\ next_obj = Len(apps) + 1
  /\ pc = "idle"
  /\ ret = "idle"
  /\ file_path_str = <<>>
  /\ app_id = 0
  /\ installed_app_object = 0
  /\ it = 0
  /\ ncalls = 0

Idle == pc = "idle" /\ ncalls < MaxCalls

-----------------------------------------------------------------------------
\* GetManagedObjects.

\* Mutant: answering empties the collection.
OnGetManagedObjects_Consuming ==
  /\ Idle
  /\ log' = log \o
       << MethodCall(kDBusObjectManagerInterface, "GetManagedObjects",
                     kInstalledManagerDBusPath, <<>>),
          Response("GetManagedObjects", ManagedObjects(installed_apps_)) >>
  /\ installed_apps_' = <<>>
  /\ ncalls' = ncalls + 1
  /\ UNCHANGED <<store, objects, next_obj, exported, pc, ret,
                 file_path_str, app_id, installed_app_object, it>>

OnGetManagedObjects ==
  /\ Idle
  /\ log' = log \o
       << MethodCall(kDBusObjectManagerInterface, "GetManagedObjects",
                     kInstalledManagerDBusPath, <<>>),
          Response("GetManagedObjects", ManagedObjects(installed_apps_)) >>
  /\ ncalls' = ncalls + 1
  /\ UNCHANGED <<store, objects, next_obj, installed_apps_, exported, pc, ret,
                 file_path_str, app_id, installed_app_object, it>>

-----------------------------------------------------------------------------
\* Install.

\* Mutant: the path is handed to the store without the IsAbsolute() test.
OnInstall_Unchecked ==
  /\ Idle
  /\ \E arg \in InstallArguments :
       LET call == MethodCall(kInstalledManagerDBusInterface, "Install",
                              kInstalledManagerDBusPath, arg)
       IN
       IF arg = NoString
       THEN /\ log' = log \o <<call, CreateError("Install", <<"Error parsing message.">>)>>
            /\ UNCHANGED <<pc, file_path_str>>
       ELSE /\ log' = Append(log, call)
            /\ file_path_str' = arg
            /\ pc' = "store_install"
  /\ ncalls' = ncalls + 1
  /\ UNCHANGED <<store, objects, next_obj, installed_apps_, exported, ret,
                 app_id, installed_app_object, it>>

\* OnInstall() up to the call into the store.
OnInstall ==
  /\ Idle
  /\ \E arg \in InstallArguments :
       LET call == MethodCall(kInstalledManagerDBusInterface, "Install",
                              kInstalledManagerDBusPath, arg)
       IN
       IF arg = NoString
       THEN /\ log' = log \o <<call, CreateError("Install", <<"Error parsing message.">>)>>
            /\ UNCHANGED <<pc, file_path_str>>
       ELSE IF ~IsAbsolute(arg)
       THEN /\ log' = log \o
                 <<call, CreateError("Install", <<"Path to install must be absolute.">>)>>
            /\ UNCHANGED <<pc, file_path_str>>
       ELSE /\ log' = Append(log, call)
            /\ file_path_str' = arg
            /\ pc' = "store_install"
  /\ ncalls' = ncalls + 1
  /\ UNCHANGED <<store, objects, next_obj, installed_apps_, exported, ret,
                 app_id, installed_app_object, it>>

\* ApplicationService::Install(file_path, &app_id): fails and changes nothing,
\* or adds a new identity and tells the observers before it returns.
StoreInstall ==
  /\ pc = "store_install"
  /\ \/ /\ log' = Append(log, StoreCall("Install", file_path_str, FALSE))
        /\ pc' = "OnInstall_failed"
        /\ UNCHANGED <<store, app_id, ret>>
     \/ /\ PackageId(file_path_str) \notin store
        /\ store' = store \cup {PackageId(file_path_str)}
        /\ app_id' = PackageId(file_path_str)
        /\ log' = Append(log, StoreCall("Install", file_path_str, TRUE))
        /\ pc' = "OnApplicationInstalled"
        /\ ret' = "OnInstall_installed"
  /\ UNCHANGED <<objects, next_obj, installed_apps_, exported, file_path_str,
                 installed_app_object, it, ncalls>>

\* Mutant: the return after the error response is missing.
OnInstallFailed_NoReturn ==
  /\ pc = "OnInstall_failed"
  /\ log' = Append(log, CreateError("Install",
               <<"Error installing application with path: ", file_path_str>>))
  /\ pc' = "OnInstall_installed"
  /\ UNCHANGED <<store, objects, next_obj, installed_apps_, exported, ret,
                 file_path_str, app_id, installed_app_object, it, ncalls>>

\* OnInstall(), the store said no.
OnInstallFailed ==
  /\ pc = "OnInstall_failed"
  /\ log' = Append(log, CreateError("Install",
               <<"Error installing application with path: ", file_path_str>>))
  /\ pc' = "idle"
  /\ UNCHANGED <<store, objects, next_obj, installed_apps_, exported, ret,
                 file_path_str, app_id, installed_app_object, it, ncalls>>

\* Mutant: the answer carries the path of the first element, not the one found.
OnInstallInstalled_Front ==
  /\ pc = "OnInstall_installed"
  /\ LET found == find_if(installed_apps_, app_id) IN
       IF found = 0
       THEN /\ pc' = "aborted"
            /\ UNCHANGED log
       ELSE /\ log' = Append(log, Response("Install", objects[installed_apps_[1]].path))
            /\ pc' = "idle"
  /\ UNCHANGED <<store, objects, next_obj, installed_apps_, exported, ret,
                 file_path_str, app_id, installed_app_object, it, ncalls>>

\* Mutant: no CHECK; an answer is sent although nothing was found.
OnInstallInstalled_Unchecked ==
  /\ pc = "OnInstall_installed"
  /\ LET found == find_if(installed_apps_, app_id) IN
       /\ log' = Append(log, Response("Install",
                   IF found = 0 THEN <<>> ELSE objects[installed_apps_[found]].path))
       /\ pc' = "idle"
  /\ UNCHANGED <<store, objects, next_obj, installed_apps_, exported, ret,
                 file_path_str, app_id, installed_app_object, it, ncalls>>

\* OnInstall(), the store said yes: find the object, CHECK, answer its path.
OnInstallInstalled ==
  /\ pc = "OnInstall_installed"
  /\ LET found == find_if(installed_apps_, app_id) IN
       IF found = 0
       THEN /\ pc' = "aborted"
            /\ UNCHANGED log
       ELSE /\ log' = Append(log, Response("Install", objects[installed_apps_[found]].path))
            /\ pc' = "idle"
  /\ UNCHANGED <<store, objects, next_obj, installed_apps_, exported, ret,
                 file_path_str, app_id, installed_app_object, it, ncalls>>

-----------------------------------------------------------------------------
\* Observer: OnApplicationInstalled(app_id).

\* CreateObject(): new object, its Uninstall method exported on the bus and
\* bound to the raw pointer.
\* Mutant: the object is created but its method is never exported.
CreateObject_NotExported ==
  /\ pc = "OnApplicationInstalled"
  /\ objects' = (next_obj :> NewObject(app_id)) @@ objects
  /\ next_obj' = next_obj + 1
  /\ pc' = "OnApplicationInstalled_push_back"
  /\ UNCHANGED <<store, installed_apps_, exported, log, ret, file_path_str, app_id,
                 installed_app_object, it, ncalls>>

CreateObject ==
  /\ pc = "OnApplicationInstalled"
  /\ objects' = (next_obj :> NewObject(app_id)) @@ objects
  /\ exported' = (PathOf(app_id) :> next_obj) @@ exported
  /\ next_obj' = next_obj + 1
  /\ log' = Append(log, Exported(PathOf(app_id)))
  /\ pc' = "OnApplicationInstalled_push_back"
  /\ UNCHANGED <<store, installed_apps_, ret, file_path_str, app_id,
                 installed_app_object, it, ncalls>>

\* Mutant: the signal goes out before the object is in the collection.
InstalledPushBack_SignalFirst ==
  /\ pc = "OnApplicationInstalled_push_back"
  /\ LET object == objects[next_obj - 1] IN
       log' = Append(log, Signal("InterfacesAdded", object.path, Properties(object)))
  /\ installed_apps_' = Append(installed_apps_, next_obj - 1)
  /\ pc' = ret
  /\ UNCHANGED <<store, objects, next_obj, exported, ret, file_path_str,
                 app_id, installed_app_object, it, ncalls>>

InstalledPushBack ==
  /\ pc = "OnApplicationInstalled_push_back"
  /\ installed_apps_' = Append(installed_apps_, next_obj - 1)
  /\ pc' = "OnApplicationInstalled_signal"
  /\ UNCHANGED <<store, objects, next_obj, exported, log, ret, file_path_str,
                 app_id, installed_app_object, it, ncalls>>

InstalledSendSignal ==
  /\ pc = "OnApplicationInstalled_signal"
  /\ LET object == objects[next_obj - 1] IN
       log' = Append(log, Signal("InterfacesAdded", object.path, Properties(object)))
  /\ pc' = ret
  /\ UNCHANGED <<store, objects, next_obj, installed_apps_, exported, ret,
                 file_path_str, app_id, installed_app_object, it, ncalls>>

-----------------------------------------------------------------------------
\* Observer: OnApplicationUninstalled(app_id).

\* Mutant: an unknown app id is fatal, as it is in OnInstall().
UninstalledFind_Fatal ==
  /\ pc = "OnApplicationUninstalled"
  /\ it' = find_if(installed_apps_, app_id)
  /\ pc' = IF it' = 0 THEN "aborted" ELSE "OnApplicationUninstalled_signal"
  /\ UNCHANGED <<store, objects, next_obj, installed_apps_, exported, log, ret,
                 file_path_str, app_id, installed_app_object, ncalls>>

UninstalledFind ==
  /\ pc = "OnApplicationUninstalled"
  /\ it' = find_if(installed_apps_, app_id)
  /\ pc' = IF it' = 0 THEN ret ELSE "OnApplicationUninstalled_signal"
  /\ UNCHANGED <<store, objects, next_obj, installed_apps_, exported, log, ret,
                 file_path_str, app_id, installed_app_object, ncalls>>

\* Mutant: the object is unregistered first and the signal sent afterwards.
UninstalledSendSignal_AfterUnregister ==
  /\ pc = "OnApplicationUninstalled_signal"
  /\ exported' = Without(exported, objects[installed_apps_[it]].path)
  /\ log' = log \o
       << Unregistered(objects[installed_apps_[it]].path),
          Signal("InterfacesRemoved", objects[installed_apps_[it]].path, Interfaces) >>
  /\ pc' = "OnApplicationUninstalled_unregister"
  /\ UNCHANGED <<store, objects, next_obj, installed_apps_, ret,
                 file_path_str, app_id, installed_app_object, it, ncalls>>

\* Mutant: the signal is not sent.
UninstalledSendSignal_Omitted ==
  /\ pc = "OnApplicationUninstalled_signal"
  /\ pc' = "OnApplicationUninstalled_unregister"
  /\ UNCHANGED <<store, objects, next_obj, installed_apps_, exported, log, ret,
                 file_path_str, app_id, installed_app_object, it, ncalls>>

\* Mutant: the signal is sent twice.
UninstalledSendSignal_Twice ==
  /\ pc = "OnApplicationUninstalled_signal"
  /\ LET removed == Signal("InterfacesRemoved", objects[installed_apps_[it]].path, Interfaces)
     IN log' = log \o <<removed, removed>>
  /\ pc' = "OnApplicationUninstalled_unregister"
  /\ UNCHANGED <<store, objects, next_obj, installed_apps_, exported, ret,
                 file_path_str, app_id, installed_app_object, it, ncalls>>

UninstalledSendSignal ==
  /\ pc = "OnApplicationUninstalled_signal"
  /\ log' = Append(log, Signal("InterfacesRemoved",
                               objects[installed_apps_[it]].path, Interfaces))
  /\ pc' = "OnApplicationUninstalled_unregister"
  /\ UNCHANGED <<store, objects, next_obj, installed_apps_, exported, ret,
                 file_path_str, app_id, installed_app_object, it, ncalls>>

\* Mutant: the exported object is not unregistered.
UninstalledUnregister_Skipped ==
  /\ pc = "OnApplicationUninstalled_unregister"
  /\ pc' = "OnApplicationUninstalled_erase"
  /\ UNCHANGED <<store, objects, next_obj, installed_apps_, exported, log, ret,
                 file_path_str, app_id, installed_app_object, it, ncalls>>

UninstalledUnregister ==
  /\ pc = "OnApplicationUninstalled_unregister"
  /\ exported' = Without(exported, objects[installed_apps_[it]].path)
  /\ log' = Append(log, Unregistered(objects[installed_apps_[it]].path))
  /\ pc' = "OnApplicationUninstalled_erase"
  /\ UNCHANGED <<store, objects, next_obj, installed_apps_, ret, file_path_str,
                 app_id, installed_app_object, it, ncalls>>

\* Mutant: the element is never erased.
UninstalledErase_Forgotten ==
  /\ pc = "OnApplicationUninstalled_erase"
  /\ pc' = ret
  /\ UNCHANGED <<store, objects, next_obj, installed_apps_, exported, log, ret,
                 file_path_str, app_id, installed_app_object, it, ncalls>>

\* ScopedVector::erase() destroys the object.
UninstalledErase ==
  /\ pc = "OnApplicationUninstalled_erase"
  /\ installed_apps_' = Remove(installed_apps_, it)
  /\ objects' = Without(objects, installed_apps_[it])
  /\ pc' = ret
  /\ UNCHANGED <<store, next_obj, exported, log, ret, file_path_str, app_id,
                 installed_app_object, it, ncalls>>

-----------------------------------------------------------------------------
\* Uninstall, exported by each object and handled by the manager.

\* OnUninstall() up to the call into the store: the argument of Uninstall()
\* is read from the object.
OnUninstall ==
  /\ Idle
  /\ \E path \in DOMAIN exported :
       /\ installed_app_object' = exported[path]
       /\ \E id \in ReadAppId(exported[path]) : app_id' = id
       /\ log' = log \o
            << MethodCall(kInstalledApplicationDBusInterface, "Uninstall", path, <<>>),
               ObjectRead(exported[path], "before") >>
  /\ pc' = "store_uninstall"
  /\ ncalls' = ncalls + 1
  /\ UNCHANGED <<store, objects, next_obj, installed_apps_, exported, ret,
                 file_path_str, it>>

\* ApplicationService::Uninstall(id): fails and changes nothing, or removes
\* the identity and tells the observers before it returns.
StoreUninstall ==
  /\ pc = "store_uninstall"
  /\ \/ /\ log' = Append(log, StoreCall("Uninstall", app_id, FALSE))
        /\ pc' = "OnUninstall_failed"
        /\ UNCHANGED <<store, ret>>
     \/ /\ app_id \in store
        /\ store' = store \ {app_id}
        /\ log' = Append(log, StoreCall("Uninstall", app_id, TRUE))
        /\ pc' = "OnApplicationUninstalled"
        /\ ret' = "OnUninstall_uninstalled"
  /\ UNCHANGED <<objects, next_obj, installed_apps_, exported, file_path_str,
                 app_id, installed_app_object, it, ncalls>>

\* Mutant: the object is unregistered although the store refused.
OnUninstallFailed_Unregisters ==
  /\ pc = "OnUninstall_failed"
  /\ \E id \in ReadAppId(installed_app_object) :
       /\ log' = log \o
            << ObjectRead(installed_app_object, "after"),
               ErrorResponse("Uninstall", kInstalledApplicationDBusError,
                 <<"Error trying to uninstall application with id ", id>>) >>
       /\ exported' = Without(exported, PathOf(id))
  /\ pc' = "idle"
  /\ UNCHANGED <<store, objects, next_obj, installed_apps_, ret,
                 file_path_str, app_id, installed_app_object, it, ncalls>>

\* OnUninstall(), the store said no: the message reads the object again.
OnUninstallFailed ==
  /\ pc = "OnUninstall_failed"
  /\ \E id \in ReadAppId(installed_app_object) :
       log' = log \o
         << ObjectRead(installed_app_object, "after"),
            ErrorResponse("Uninstall", kInstalledApplicationDBusError,
              <<"Error trying to uninstall application with id ", id>>) >>
  /\ pc' = "idle"
  /\ UNCHANGED <<store, objects, next_obj, installed_apps_, exported, ret,
                 file_path_str, app_id, installed_app_object, it, ncalls>>

\* Mutant: the success path reads the object after Uninstall() returned.
OnUninstallUninstalled_ReadsObject ==
  /\ pc = "OnUninstall_uninstalled"
  /\ \E id \in ReadAppId(installed_app_object) :
       log' = log \o << ObjectRead(installed_app_object, "after"),
                        Response("Uninstall", <<id>>) >>
  /\ pc' = "idle"
  /\ UNCHANGED <<store, objects, next_obj, installed_apps_, exported, ret,
                 file_path_str, app_id, installed_app_object, it, ncalls>>

\* OnUninstall(), the store said yes: the answer comes from the method call.
OnUninstallUninstalled ==
  /\ pc = "OnUninstall_uninstalled"
  /\ log' = Append(log, Response("Uninstall", <<>>))
  /\ pc' = "idle"
  /\ UNCHANGED <<store, objects, next_obj, installed_apps_, exported, ret,
                 file_path_str, app_id, installed_app_object, it, ncalls>>

-----------------------------------------------------------------------------
\* The store changed by somebody else; the observers are told all the same.

StoreInstalledElsewhere ==
  /\ Idle
  /\ \E id \in Ids \ store :
       /\ store' = store \cup {id}
       /\ app_id' = id
       /\ log' = Append(log, StoreCall("Install", AbsolutePackage(id), TRUE))
  /\ pc' = "OnApplicationInstalled"
  /\ ret' = "idle"
  /\ ncalls' = ncalls + 1
  /\ UNCHANGED <<objects, next_obj, installed_apps_, exported,
                 file_path_str, installed_app_object, it>>

StoreUninstalledElsewhere ==
  /\ Idle
  /\ \E id \in store :
       /\ store' = store \ {id}
       /\ app_id' = id
       /\ log' = Append(log, StoreCall("Uninstall", id, TRUE))
  /\ pc' = "OnApplicationUninstalled"
  /\ ret' = "idle"
  /\ ncalls' = ncalls + 1
  /\ UNCHANGED <<objects, next_obj, installed_apps_, exported,
                 file_path_str, installed_app_object, it>>

\* An uninstall notification for an identity the store does not hold.
StoreUninstalledUnknown ==
  /\ Idle
  /\ \E id \in Ids \ store : app_id' = id
  /\ pc' = "OnApplicationUninstalled"
  /\ ret' = "idle"
  /\ ncalls' = ncalls + 1
  /\ UNCHANGED <<store, objects, next_obj, installed_apps_, exported, log,
                 file_path_str, installed_app_object, it>>

-----------------------------------------------------------------------------

Next ==
  \/ OnGetManagedObjects
  \/ OnInstall
  \/ StoreInstall
  \/ OnInstallFailed
  \/ OnInstallInstalled
  \/ CreateObject
  \/ InstalledPushBack
  \/ InstalledSendSignal
  \/ UninstalledFind
  \/ UninstalledSendSignal
  \/ UninstalledUnregister
  \/ UninstalledErase
  \/ OnUninstall
  \/ StoreUninstall
  \/ OnUninstallFailed
  \/ OnUninstallUninstalled
  \/ StoreInstalledElsewhere
  \/ StoreUninstalledElsewhere
  \/ StoreUninstalledUnknown

Spec == Init /\ [][Next]_vars

-----------------------------------------------------------------------------
\* A store that breaks its contract: Install reports success for a new
\* identity but returns without having told the observers.
StoreInstallUnobserved ==
  /\ pc = "store_install"
  /\ PackageId(file_path_str) \notin store
  /\ store' = store \cup {PackageId(file_path_str)}
  /\ app_id' = PackageId(file_path_str)
  /\ log' = Append(log, StoreCall("Install", file_path_str, TRUE))
  /\ pc' = "OnInstall_installed"
  /\ UNCHANGED <<objects, next_obj, installed_apps_, exported, ret, file_path_str,
                 installed_app_object, it, ncalls>>

NextFaultyStore == Next \/ StoreInstallUnobserved

SpecFaultyStore == Init /\ [][NextFaultyStore]_vars

-----------------------------------------------------------------------------
\* The end of the manager's life.

ObserverRemoved ==
  [type |-> "observer", name |-> "RemoveObserver", path |-> <<>>, data |-> <<>>]

Gone == pc = "destroyed" /\ ncalls < MaxCalls

\* ~InstalledApplicationsManager(): the manager leaves the store's observers;
\* then its members go: the ScopedVector deletes its objects and the weak
\* pointers handed to the bus become invalid.  Nothing is unregistered.
Destroy ==
  /\ Idle
  /\ log' = Append(log, ObserverRemoved)
  /\ installed_apps_' = <<>>
  /\ objects' = <<>>
  /\ pc' = "destroyed"
  /\ ncalls' = ncalls + 1
  /\ UNCHANGED <<store, next_obj, exported, ret, file_path_str, app_id,
                 installed_app_object, it>>

\* The method calls the bus can still dispatch.
Dispatchable ==
  {MethodCall(kDBusObjectManagerInterface, "GetManagedObjects",
              kInstalledManagerDBusPath, <<>>)}
  \cup {MethodCall(kInstalledManagerDBusInterface, "Install",
                   kInstalledManagerDBusPath, arg) : arg \in InstallArguments}
  \cup {MethodCall(kInstalledApplicationDBusInterface, "Uninstall", path, <<>>) :
          path \in DOMAIN exported}

\* Mutant: the handlers are bound with base::Unretained(this) and run.
CallbackAfterDestruction_Unretained ==
  /\ Gone
  /\ \E call \in Dispatchable :
       log' = log \o <<call, Response(call.name, <<>>)>>
  /\ ncalls' = ncalls + 1
  /\ UNCHANGED <<store, objects, next_obj, installed_apps_, exported, pc, ret,
                 file_path_str, app_id, installed_app_object, it>>

\* A handler bound through weak_factory_.GetWeakPtr() is run by the bus after
\* the manager is gone: the callback is dropped, the handler's body never runs.
CallbackAfterDestruction ==
  /\ Gone
  /\ \E call \in Dispatchable : log' = Append(log, call)
  /\ ncalls' = ncalls + 1
  /\ UNCHANGED <<store, objects, next_obj, installed_apps_, exported, pc, ret,
                 file_path_str, app_id, installed_app_object, it>>

\* The store changes after the manager left its observers: nobody is told.
StoreChangedAfterDestruction ==
  /\ Gone
  /\ \E id \in Ids :
       IF id \in store
       THEN /\ store' = store \ {id}
            /\ log' = Append(log, StoreCall("Uninstall", id, TRUE))
       ELSE /\ store' = store \cup {id}
            /\ log' = Append(log, StoreCall("Install", AbsolutePackage(id), TRUE))
  /\ ncalls' = ncalls + 1
  /\ UNCHANGED <<objects, next_obj, installed_apps_, exported, pc, ret,
                 file_path_str, app_id, installed_app_object, it>>

NextLifetime ==
  \/ Next
  \/ Destroy
  \/ CallbackAfterDestruction
  \/ StoreChangedAfterDestruction

SpecLifetime == Init /\ [][NextLifetime]_vars

-----------------------------------------------------------------------------
\* Reading the log.

LogIdx == 1..Len(log)

IsCall(e, member) == e.type = "call" /\ e.name = member
IsResponse(e, member) == e.type = "response" /\ e.name = member
IsError(e, member) == e.type = "error" /\ e.name = member
IsSignal(e, member) == e.type = "signal" /\ e.name = member
IsStore(e, op, ok) == e.type = "store" /\ e.name = op /\ e.data[2] = ok

\* The method call an entry at j answers or belongs to: the last one before j.
CallBefore(j) ==
  CHOOSE i \in 0..(j - 1) :
    /\ i > 0 => log[i].type = "call"
    /\ \A k \in (i + 1)..(j - 1) : log[k].type # "call"

\* The entries between a call and its answer at j.
During(j) == (CallBefore(j) + 1)..(j - 1)

\* The paths a GetManagedObjects response lists.
PathsIn(e) == {e.data[i][1] : i \in 1..Len(e.data)}

\* Entries written before anything was asked of the manager or the store.
AtStartup(j) == \A k \in 1..j : log[k].type = "export"

\* Where the effects of the store event at s end: at the next call or store event.
EffectsOf(s) ==
  {k \in LogIdx : /\ k > s
                  /\ \A m \in (s + 1)..k : log[m].type \notin {"call", "store"}}

-----------------------------------------------------------------------------
\* C1: whenever no operation is in flight, the identities held in
\* installed_apps_ are exactly the identities the store reports installed, no
\* identity and no path is held twice, and GetManagedObjects would list exactly
\* the paths derived from the store's identities.
MirrorInvariant ==
  pc = "idle" =>
    /\ TrackedIds = store
    /\ \A i, j \in 1..Len(installed_apps_) :
         i # j => /\ objects[installed_apps_[i]].app_id # objects[installed_apps_[j]].app_id
                  /\ objects[installed_apps_[i]].path # objects[installed_apps_[j]].path
    /\ Len(ManagedObjects(installed_apps_)) = Cardinality(store)
    /\ {ManagedObjects(installed_apps_)[i][1] : i \in 1..Len(installed_apps_)}
         = {PathOf(id) : id \in store}

\* An install, a failed uninstall and a successful uninstall have all settled.
MirrorWitness ==
  /\ pc = "idle"
  /\ store # {}
  /\ \E j \in LogIdx : IsStore(log[j], "Install", TRUE)
  /\ \E j \in LogIdx : IsStore(log[j], "Uninstall", TRUE)
  /\ \E j \in LogIdx : IsError(log[j], "Uninstall")

-----------------------------------------------------------------------------
\* C2: every success response to Install is preceded, since the start of that
\* command, by exactly one InterfacesAdded signal, and the signal names the
\* path the response carries.
InstallAnnouncedOnce ==
  \A j \in LogIdx :
    IsResponse(log[j], "Install") =>
      LET added == {k \in During(j) : IsSignal(log[k], "InterfacesAdded")} IN
        /\ Cardinality(added) = 1
        /\ \A k \in added : log[k].path = log[j].data

\* An Install succeeded while another application was already exported.
InstallAnnouncedWitness ==
  \E j \in LogIdx :
    /\ IsResponse(log[j], "Install")
    /\ Len(installed_apps_) > 1

-----------------------------------------------------------------------------
\* C3 as stated: every successful uninstall triggers exactly one
\* InterfacesRemoved; its path was returned before by a GetManagedObjects
\* response or an InterfacesAdded signal; no later GetManagedObjects response
\* lists that path.
AnnouncedBefore(path, k) ==
  \E j \in 1..(k - 1) :
    \/ IsSignal(log[j], "InterfacesAdded") /\ log[j].path = path
    \/ IsResponse(log[j], "GetManagedObjects") /\ path \in PathsIn(log[j])

RemovedOncePerUninstall ==
  pc = "idle" =>
    \A s \in LogIdx :
      IsStore(log[s], "Uninstall", TRUE) =>
        /\ Cardinality({k \in EffectsOf(s) : IsSignal(log[k], "InterfacesRemoved")}) = 1
        /\ \A k \in EffectsOf(s) :
             IsSignal(log[k], "InterfacesRemoved") => log[k].path = PathOf(log[s].data[1])

RemovalAsStated ==
  /\ RemovedOncePerUninstall
  /\ \A k \in LogIdx :
       IsSignal(log[k], "InterfacesRemoved") =>
         /\ AnnouncedBefore(log[k].path, k)
         /\ \A m \in (k + 1)..Len(log) :
              IsResponse(log[m], "GetManagedObjects") => log[k].path \notin PathsIn(log[m])

\* C3 as amended: every successful uninstall triggers exactly one
\* InterfacesRemoved; its path was returned before by a GetManagedObjects
\* response or an InterfacesAdded signal, or belongs to an object created at
\* startup; a later GetManagedObjects response lists that path only if an
\* InterfacesAdded signal for it came in between.
RemovalOrdering ==
  /\ RemovedOncePerUninstall
  /\ \A k \in LogIdx :
       IsSignal(log[k], "InterfacesRemoved") =>
         /\ \/ AnnouncedBefore(log[k].path, k)
            \/ \E j \in 1..(k - 1) : AtStartup(j) /\ log[j] = Exported(log[k].path)
         /\ \A m \in (k + 1)..Len(log) :
              (IsResponse(log[m], "GetManagedObjects") /\ log[k].path \in PathsIn(log[m]))
                => \E a \in (k + 1)..(m - 1) :
                     IsSignal(log[a], "InterfacesAdded") /\ log[a].path = log[k].path

\* An Uninstall command succeeded and GetManagedObjects was answered afterwards.
RemovalWitness ==
  \E j, m \in LogIdx :
    /\ IsResponse(log[j], "Uninstall")
    /\ m > j
    /\ IsResponse(log[m], "GetManagedObjects")


-----------------------------------------------------------------------------
\* Steps seen from outside.

\* The entry this step appends first, and the call the step in progress serves.
Appended == log'[Len(log) + 1]
CurrentCall == log[CallBefore(Len(log) + 1)]
SinceCall == During(Len(log) + 1)

CollectionUnchanged == UNCHANGED <<store, objects, installed_apps_, exported>>

-----------------------------------------------------------------------------
\* C4: when an Uninstall command succeeds, the handler reads the object only
\* before it calls the store's Uninstall, never after the call returned, and
\* the success response carries nothing taken from the object.
UninstallSuccessReadsNothing ==
  \A j \in LogIdx :
    IsResponse(log[j], "Uninstall") =>
      /\ log[j].data = <<>>
      /\ \A k, s \in During(j) :
           (log[k].type = "read" /\ log[s].type = "store") => k < s

\* An Uninstall succeeded and the object bound to the handler is destroyed.
UninstallSuccessWitness ==
  /\ \E j \in LogIdx : IsResponse(log[j], "Uninstall")
  /\ pc = "idle"
  /\ installed_app_object # 0
  /\ installed_app_object \notin DOMAIN objects
  /\ log[Len(log)].type = "response" /\ log[Len(log)].name = "Uninstall"

-----------------------------------------------------------------------------
\* C5: an Install command whose path is not absolute is answered at once with
\* the "must be absolute" error: the store is not called, no signal is sent,
\* nothing is exported and the collection stays as it was.
RelativeInstallRejected ==
  [][ ( /\ Len(log') > Len(log)
        /\ IsCall(Appended, "Install")
        /\ Appended.data[2] # NoString
        /\ ~IsAbsolute(Appended.data[2]) )
      => ( /\ log' = log \o <<Appended,
                      CreateError("Install", <<"Path to install must be absolute.">>)>>
           /\ pc' = "idle"
           /\ CollectionUnchanged ) ]_vars

\* A relative path was rejected while applications were exported.
RelativeInstallWitness ==
  /\ installed_apps_ # <<>>
  /\ \E j \in LogIdx :
       /\ IsError(log[j], "Install")
       /\ log[j].data[2] = <<"Path to install must be absolute.">>
       /\ log[j - 1].data[2] = RelativePackage(1)

-----------------------------------------------------------------------------
\* C6: when the store's Install fails, the command is answered with the
\* "error installing" error carrying the path the caller gave; from the call to
\* the answer no object is created, no signal is sent and the collection stays
\* as it was.
InstallFailureChangesNothing ==
  [][ /\ (pc = "idle" /\ pc' = "store_install") => CollectionUnchanged
      /\ (pc = "store_install" /\ pc' = "OnInstall_failed") => CollectionUnchanged
      /\ pc = "OnInstall_failed" =>
           /\ \A k \in SinceCall : IsStore(log[k], "Install", FALSE)
           /\ log' = Append(log, CreateError("Install",
                       <<"Error installing application with path: ", CurrentCall.data[2]>>))
           /\ pc' = "idle"
           /\ CollectionUnchanged ]_vars

\* The store refused an Install while applications were exported.
InstallFailureWitness ==
  /\ pc = "idle"
  /\ installed_apps_ # <<>>
  /\ Len(log) > 2
  /\ IsError(log[Len(log)], "Install")
  /\ IsStore(log[Len(log) - 1], "Install", FALSE)

-----------------------------------------------------------------------------
\* C7: when the store's Uninstall fails, the command is answered with the
\* "error trying to uninstall" error, no InterfacesRemoved is sent, and the
\* target stays in the collection, registered on the bus and listed by
\* GetManagedObjects.
UninstallFailureKeepsObject ==
  [][ /\ (pc = "idle" /\ pc' = "store_uninstall") => CollectionUnchanged
      /\ (pc = "store_uninstall" /\ pc' = "OnUninstall_failed") => CollectionUnchanged
      /\ pc = "OnUninstall_failed" =>
           LET target == CurrentCall.path IN
           /\ \A k \in SinceCall : ~IsSignal(log[k], "InterfacesRemoved")
           /\ Len(log') = Len(log) + 2
           /\ Appended.type = "read"
           /\ \E id \in Ids :
                /\ PathOf(id) = target
                /\ log'[Len(log')] =
                     ErrorResponse("Uninstall", kInstalledApplicationDBusError,
                       <<"Error trying to uninstall application with id ", id>>)
           /\ pc' = "idle"
           /\ CollectionUnchanged
           /\ target \in TrackedPaths'
           /\ target \in DOMAIN exported'
           /\ \E i \in 1..Len(installed_apps_') :
                (ManagedObjects(installed_apps_)[i][1])' = target ]_vars

\* The store refused an Uninstall.
UninstallFailureWitness ==
  /\ pc = "idle"
  /\ Len(log) > 2
  /\ IsError(log[Len(log)], "Uninstall")
  /\ IsStore(log[Len(log) - 2], "Uninstall", FALSE)

-----------------------------------------------------------------------------
\* C8: every success response to Uninstall comes after an InterfacesRemoved
\* signal for the target's path sent during that command, and at the moment
\* the response is sent the target is no longer in the collection.
RemovedBeforeUninstallAnswer ==
  /\ \A j \in LogIdx :
       IsResponse(log[j], "Uninstall") =>
         \E k \in During(j) :
           /\ IsSignal(log[k], "InterfacesRemoved")
           /\ log[k].path = log[CallBefore(j)].path
  /\ (pc = "OnUninstall_uninstalled"
        \/ (log # <<>> /\ IsResponse(log[Len(log)], "Uninstall")))
       => CurrentCall.path \notin TrackedPaths

\* The success response to an Uninstall has just been sent.
RemovedBeforeAnswerWitness ==
  /\ log # <<>>
  /\ IsResponse(log[Len(log)], "Uninstall")
  /\ installed_apps_ # <<>>

-----------------------------------------------------------------------------
\* C9: OnApplicationUninstalled for an app id that no element of the
\* collection has changes neither the collection nor the bus registrations,
\* sends nothing, and returns to its caller without aborting.
UnknownUninstallIsNoOp ==
  [][ (pc = "OnApplicationUninstalled" /\ app_id \notin TrackedIds)
      => ( /\ CollectionUnchanged
           /\ log' = log
           /\ pc' = ret
           /\ pc' # "aborted" ) ]_vars

\* The notification for an unknown app id arrives while others are exported.
UnknownUninstallWitness ==
  /\ pc = "OnApplicationUninstalled"
  /\ app_id \notin TrackedIds
  /\ installed_apps_ # <<>>

-----------------------------------------------------------------------------
\* C10: a GetManagedObjects command changes neither the collection nor the
\* bus registrations and sends no signal; its response has one entry per
\* element (none for an empty collection); and two responses with no change to
\* the collection between them are equal, entry for entry.
Mutation(e) ==
  \/ e.type \in {"signal", "export", "unregister"}
  \/ e.type = "store" /\ e.data[2]

EnumerationIsPure ==
  /\ [][ (Len(log') > Len(log) /\ IsCall(Appended, "GetManagedObjects"))
         => ( /\ Len(log') = Len(log) + 2
              /\ IsResponse(log'[Len(log')], "GetManagedObjects")
              /\ Len(log'[Len(log')].data) = Len(installed_apps_)
              /\ pc' = "idle"
              /\ CollectionUnchanged ) ]_vars
  /\ [](\A i, j \in LogIdx :
          ( /\ i < j
            /\ IsResponse(log[i], "GetManagedObjects")
            /\ IsResponse(log[j], "GetManagedObjects")
            /\ \A k \in (i + 1)..(j - 1) : ~Mutation(log[k]) )
          => log[i].data = log[j].data)

\* Two GetManagedObjects responses in a row over a collection that is not empty.
EnumerationWitness ==
  /\ Len(log) > 3
  /\ IsResponse(log[Len(log)], "GetManagedObjects")
  /\ IsResponse(log[Len(log) - 2], "GetManagedObjects")
  /\ log[Len(log)].data # <<>>

-----------------------------------------------------------------------------
\* C11: when construction is over, the collection holds exactly one object per
\* application the store reports installed, each exported on the bus, and the
\* only thing done on the bus was exporting them: no signal has been sent.
Constructed == pc = "idle" /\ ncalls = 0

StartupIsSilent ==
  Constructed =>
    /\ Len(installed_apps_) = Cardinality(store)
    /\ TrackedIds = store
    /\ DOMAIN exported = {PathOf(id) : id \in store}
    /\ Len(log) = Cardinality(store)
    /\ \A k \in LogIdx : log[k].type = "export" /\ log[k].type # "signal"

\* Construction over a store that holds every application.
StartupWitness == Constructed /\ store = Ids /\ Len(installed_apps_) = NumIds

-----------------------------------------------------------------------------
\* The two ways an Install command fails.
IsNotAbsoluteError(e) ==
  IsError(e, "Install") /\ e.data[2] = <<"Path to install must be absolute.">>
IsInstallFailedError(e) ==
  IsError(e, "Install") /\ e.data[2][1] = "Error installing application with path: "

\* C12 as stated: the error for a path that is not absolute and the error for
\* an install the store refused carry different error names.
InstallErrorsNamedApart ==
  \A i, j \in LogIdx :
    (IsNotAbsoluteError(log[i]) /\ IsInstallFailedError(log[j]))
      => log[i].data[1] # log[j].data[1]

\* C12 as amended: both errors carry the one error name
\* org.crosswalkproject.Installed.Manager.Error and differ in their message,
\* so a caller tells them apart by the message, not by the name.
InstallErrorsShareName ==
  /\ \A i \in LogIdx :
       IsError(log[i], "Install") => log[i].data[1] = kInstalledManagerDBusError
  /\ \A i, j \in LogIdx :
       (IsNotAbsoluteError(log[i]) /\ IsInstallFailedError(log[j]))
         => /\ log[i].data[1] = log[j].data[1]
            /\ log[i].data[2] # log[j].data[2]

\* Both failures have been answered.
InstallErrorsWitness ==
  \E i, j \in LogIdx : IsNotAbsoluteError(log[i]) /\ IsInstallFailedError(log[j])

-----------------------------------------------------------------------------
\* The responses and errors sent for the call at i: those before the next call.
AnswersTo(i) ==
  {k \in LogIdx : /\ k > i
                  /\ log[k].type \in {"response", "error"}
                  /\ \A m \in (i + 1)..k : log[m].type # "call"}

\* C13: every Install, Uninstall and GetManagedObjects command gets exactly one
\* response or error, for the member that was called, before the manager
\* takes up anything else; while the command is in flight it has got at most
\* one, and no command is aborted.
EveryCommandAnsweredOnce ==
  /\ pc # "aborted"
  /\ \A i \in LogIdx :
       log[i].type = "call" =>
         /\ Cardinality(AnswersTo(i)) <= 1
         /\ \A k \in AnswersTo(i) : log[k].name = log[i].name
         /\ (pc = "idle" \/ \E m \in (i + 1)..Len(log) : log[m].type = "call")
              => Cardinality(AnswersTo(i)) = 1

\* All three commands have been answered, one of them with an error.
EveryCommandWitness ==
  /\ pc = "idle"
  /\ \E k \in LogIdx : IsResponse(log[k], "GetManagedObjects")
  /\ \E k \in LogIdx : IsResponse(log[k], "Uninstall") \/ IsError(log[k], "Uninstall")
  /\ \E k \in LogIdx : IsResponse(log[k], "Install") \/ IsError(log[k], "Install")

-----------------------------------------------------------------------------
\* The entries a step appends.
NewIdx == (Len(log) + 1)..Len(log')

\* C14: in OnApplicationUninstalled for a tracked app id, InterfacesRemoved is
\* sent while the object is still registered on the bus and still in the
\* collection; the object is unregistered after the signal and while still in
\* the collection; the element is erased and destroyed only once unregistered.
UninstalledInOrder ==
  [][ /\ \A k \in NewIdx :
           IsSignal(log'[k], "InterfacesRemoved") =>
             /\ log'[k].path \in DOMAIN exported /\ log'[k].path \in DOMAIN exported'
             /\ log'[k].path \in TrackedPaths /\ log'[k].path \in TrackedPaths'
      /\ \A p \in DOMAIN exported \ DOMAIN exported' :
           /\ log # <<>>
           /\ log[Len(log)] = Signal("InterfacesRemoved", p, Interfaces)
           /\ p \in TrackedPaths /\ p \in TrackedPaths'
      /\ \A p \in TrackedPaths \ TrackedPaths' :
           /\ p \notin DOMAIN exported
           /\ log # <<>>
           /\ log[Len(log)] = Unregistered(p)
           /\ DOMAIN objects' = DOMAIN objects \ {installed_apps_[it]} ]_vars

\* The signal is out, the object is unregistered, the element is about to go.
UninstalledInOrderWitness ==
  /\ pc = "OnApplicationUninstalled_erase"
  /\ Len(installed_apps_) > 1
  /\ ret = "OnUninstall_uninstalled"

-----------------------------------------------------------------------------
\* C15: in OnApplicationInstalled the object is constructed and its Uninstall
\* method exported before it is appended to the collection, and it is in the
\* collection before InterfacesAdded is sent: when the signal goes out, its
\* path is registered on the bus, bound to a live object, and that object is
\* an element of the collection.
InstalledInOrder ==
  [][ /\ \A k \in NewIdx :
           IsSignal(log'[k], "InterfacesAdded") =>
             LET p == log'[k].path IN
             /\ p \in DOMAIN exported
             /\ exported[p] \in DOMAIN objects
             /\ objects[exported[p]].path = p
             /\ \E i \in 1..Len(installed_apps_) : installed_apps_[i] = exported[p]
             /\ log'[k].data = Properties(objects[exported[p]])
      /\ Len(installed_apps_') > Len(installed_apps_) =>
           LET ptr == installed_apps_'[Len(installed_apps_')] IN
           /\ ptr \in DOMAIN objects
           /\ objects[ptr].path \in DOMAIN exported
           /\ exported[objects[ptr].path] = ptr
           /\ log[Len(log)] = Exported(objects[ptr].path) ]_vars

\* The object is exported and appended, the signal is about to go out.
InstalledInOrderWitness ==
  /\ pc = "OnApplicationInstalled_signal"
  /\ ret = "OnInstall_installed"
  /\ Len(installed_apps_) > 1

-----------------------------------------------------------------------------
\* C16: whenever something can be observed from outside -- a command is
\* dispatched, a signal is sent, a response or an error is sent -- the paths
\* of the collection are exactly the paths registered on the bus, each bound to
\* the element that has that path; this holds just before and just after.
Consistent ==
  /\ TrackedPaths = DOMAIN exported
  /\ \A i \in 1..Len(installed_apps_) :
       exported[objects[installed_apps_[i]].path] = installed_apps_[i]

ObservablyConsistent ==
  [][ (\E k \in NewIdx : log'[k].type \in {"call", "signal", "response", "error"})
      => (Consistent /\ Consistent') ]_vars

\* InterfacesRemoved has just been sent: the object is about to be unregistered.
ObservablyConsistentWitness ==
  /\ pc = "OnApplicationUninstalled_unregister"
  /\ log # <<>>
  /\ IsSignal(log[Len(log)], "InterfacesRemoved")
  /\ Consistent

-----------------------------------------------------------------------------
\* The reads of the bound object during the Uninstall command answered at j,
\* before and after the handler's call into the store.
IsUninstallAnswer(e) == IsResponse(e, "Uninstall") \/ IsError(e, "Uninstall")
ReadsBeforeStore(j) ==
  {k \in During(j) : log[k].type = "read"
                     /\ \E s \in During(j) : log[s].type = "store" /\ k < s}
ReadsAfterStore(j) ==
  {k \in During(j) : log[k].type = "read"
                     /\ \E s \in During(j) : log[s].type = "store" /\ k > s}

\* C17 as stated: on the success path and on the failure path alike, the
\* handler reads the identity from the object before it calls the store's
\* Uninstall and does not read the object after the call.
UninstallNeverReadsAfter ==
  \A j \in LogIdx :
    IsUninstallAnswer(log[j]) =>
      /\ ReadsBeforeStore(j) # {}
      /\ ReadsAfterStore(j) = {}

\* C17 as amended: the handler reads the identity from the object before it
\* calls the store's Uninstall; on the success path it does not read the
\* object after the call; on the failure path it reads the identity from the
\* object once more, for the error message, and the object has been neither
\* unregistered nor announced as removed in that command.
UninstallReadsAgainOnlyOnFailure ==
  \A j \in LogIdx :
    IsUninstallAnswer(log[j]) =>
      /\ Cardinality(ReadsBeforeStore(j)) = 1
      /\ IsResponse(log[j], "Uninstall") => ReadsAfterStore(j) = {}
      /\ IsError(log[j], "Uninstall") =>
           /\ Cardinality(ReadsAfterStore(j)) = 1
           /\ \A k \in ReadsAfterStore(j), b \in ReadsBeforeStore(j) :
                log[k].data = log[b].data
           /\ \A k \in During(j) :
                log[k].type # "unregister" /\ ~IsSignal(log[k], "InterfacesRemoved")
           /\ \E id \in Ids : /\ PathOf(id) = log[CallBefore(j)].path
                              /\ log[j].data[2][2] = id

\* An Uninstall the store refused and an Uninstall it accepted were answered.
UninstallReadsWitness ==
  /\ \E j \in LogIdx : IsError(log[j], "Uninstall")
  /\ \E j \in LogIdx : IsResponse(log[j], "Uninstall")

-----------------------------------------------------------------------------
\* C18: when the store's Install has returned success for an identity and
\* OnApplicationInstalled ran for it during the call, the lookup finds an
\* element and the handler answers with its path; when the reported success
\* is not reflected in the collection, the handler aborts and sends nothing,
\* so an aborted Install has no answer.
ObserverRan ==
  \E k \in SinceCall :
    IsSignal(log[k], "InterfacesAdded") /\ log[k].path = PathOf(app_id)

InstallCheck ==
  /\ [](pc = "OnInstall_installed" /\ ObserverRan => app_id \in TrackedIds)
  /\ [][ pc = "OnInstall_installed" =>
           IF app_id \in TrackedIds
           THEN /\ pc' = "idle"
                /\ log' = Append(log, Response("Install", PathOf(app_id)))
           ELSE /\ pc' = "aborted"
                /\ log' = log ]_vars
  /\ [](pc = "aborted" =>
          /\ IsCall(CurrentCall, "Install")
          /\ AnswersTo(CallBefore(Len(log) + 1)) = {})

\* One Install was answered with a path, a later one ended in the abort.
InstallCheckWitness ==
  /\ pc = "aborted"
  /\ \E k \in LogIdx : IsResponse(log[k], "Install")

-----------------------------------------------------------------------------
\* C19: the destructor takes the manager out of the store's observers; from
\* then on a command the bus dispatches runs no handler (no store call, no
\* signal, no response, no read of an object follows the call), and a change
\* of the store reaches nobody: the bus registrations and the log of what the
\* manager did stay as the destructor left them.
ManagerGoneIsInert ==
  /\ [][ (pc # "destroyed" /\ pc' = "destroyed") =>
           /\ pc = "idle"
           /\ log' = Append(log, ObserverRemoved)
           /\ UNCHANGED <<store, exported>> ]_vars
  /\ [][ pc = "destroyed" =>
           /\ pc' = "destroyed"
           /\ UNCHANGED <<objects, installed_apps_, exported>>
           /\ Len(log') = Len(log) + 1
           /\ \/ log'[Len(log')].type = "call" /\ store' = store
              \/ log'[Len(log')].type = "store" ]_vars
  /\ [](\A i, k \in LogIdx :
          (log[i] = ObserverRemoved /\ k > i) => log[k].type \in {"call", "store"})

\* After the destructor a command was dispatched and the store changed, with
\* objects still registered on the bus.
ManagerGoneWitness ==
  /\ pc = "destroyed"
  /\ DOMAIN exported # {}
  /\ Len(log) > 2
  /\ log[Len(log)].type = "call"
  /\ log[Len(log) - 1].type = "store"
  /\ log[Len(log) - 2] = ObserverRemoved

-----------------------------------------------------------------------------
\* C20: every read the Uninstall handler makes through its raw pointer, at
\* its start and on the failure path, is of an object that is alive and an
\* element of the collection; and whenever a command can be dispatched, every
\* Uninstall method on the bus is bound to such an object.
InCollection(ptr) ==
  /\ ptr \in DOMAIN objects
  /\ \E i \in 1..Len(installed_apps_) : installed_apps_[i] = ptr

NoUseAfterFree ==
  /\ [][ \A k \in NewIdx :
           /\ log'[k].type = "read" => InCollection(log'[k].data[1])
           /\ (pc = "idle" /\ IsCall(log'[k], "Uninstall"))
                => InCollection(exported[log'[k].path]) ]_vars
  /\ [](pc = "idle" => \A p \in DOMAIN exported : InCollection(exported[p]))

\* The handler read the object again after a refused Uninstall, in a run in
\* which another Uninstall had destroyed an object.
NoUseAfterFreeWitness ==
  /\ pc = "idle"
  /\ \E k \in LogIdx : log[k].type = "read" /\ log[k].name = "after"
  /\ \E k \in LogIdx : IsResponse(log[k], "Uninstall")

====
